---- MODULE Spec2Model ----
(***************************************************************************)
(* The blog-post CRUD service of src/main.rs: five HTTP routes, each       *)
(* running one SQL statement of the data-access layer on a connection      *)
(* leased from a pool of at most five, and the translation of the store's  *)
(* errors to HTTP statuses.                                                *)
(*                                                                         *)
(* A request is received, leases a connection, runs its one statement      *)
(* (atomic at the store) and is answered.  What the handler does after the *)
(* statement (map_err, `?`, building the HttpResponse) touches no shared   *)
(* state and is part of the step that runs the statement.  A statement     *)
(* that fails at the store is modelled as not having been applied.         *)
(***************************************************************************)
EXTENDS Integers, FiniteSets, Sequences, Bags, TLC

\* How many ids the table's sequence hands out before creates stop arriving.
MaxId == 3

\* RaceSpec: how many ids its requests are about, and how many of its
\* requests are in flight at once.
MaxRaceId == 1
MaxRacing == 2

\* PgPoolOptions::new().max_connections(5)
MaxConnections == 5

VARIABLES
    table,      \* blog_posts: a set of rows [id, title, content, author]
    seq,        \* last value handed out by the id sequence of blog_posts
    leased,     \* connections of the pool currently checked out
    inflight,   \* bag of requests received and not yet answered
    last,       \* the exchange answered most recently
    posts,      \* history: what the answers so far say the store holds
    deleted     \* history: ids whose row a delete removed

vars == <<table, seq, leased, inflight, last, posts, deleted>>

----------------------------------------------------------------------------
(* Models *)

NoPost == [title |-> "", author |-> "", content |-> ""]

\* NewBlogPost inputs: all six field values differ, so that a field written
\* to the wrong column shows.
NewBlogPost ==
    { [title |-> "T", author |-> "Al", content |-> "C"],
      [title |-> "U", author |-> "Bo", content |-> "D"] }

BlogPost(id, title, author, content) ==
    [id |-> id, title |-> title, author |-> author, content |-> content]

\* #[derive(FromRow)]: each field is read from the column of its name.
FromRow(row) == BlogPost(row.id, row.title, row.author, row.content)

----------------------------------------------------------------------------
(* API Error *)

DatabaseError(msg) == [variant |-> "DatabaseError", msg |-> msg]
NotFound(msg) == [variant |-> "NotFound", msg |-> msg]
NoError == [variant |-> "none", msg |-> ""]

\* What sqlx can fail with: RowNotFound from a fetch_one that finds no row,
\* the others from the pool or the store.
SqlxErrors == {"RowNotFound", "PoolTimedOut", "Io", "Database"}

\* err.to_string()
to_string(err) ==
    CASE err = "RowNotFound" ->
             "no rows returned by a query that expected to return at least one row"
      [] err = "PoolTimedOut" ->
             "pool timed out while waiting for an open connection"
      [] err = "Io" -> "error communicating with database"
      [] OTHER -> "error returned from database"

\* From without its RowNotFound arm.
FromAllDatabase(err) == DatabaseError(to_string(err))

\* impl From<sqlx::Error> for ApiError
From(err) ==
    IF err = "RowNotFound"
    THEN NotFound("Record not found")
    ELSE DatabaseError(to_string(err))

\* ApiError::status_code
status_code(e) ==
    IF e.variant = "DatabaseError" THEN 500 ELSE 404

Json(v) == [type |-> "json", value |-> v]
Empty == [type |-> "empty"]
HttpResponse(status, body) == [status |-> status, body |-> body]

\* error_response answering a DatabaseError with HttpResponse::Ok().
ErrorResponseOk(e) ==
    IF e.variant = "DatabaseError"
    THEN HttpResponse(200, Json(e.msg))
    ELSE HttpResponse(404, Json(e.msg))

\* ApiError::error_response
error_response(e) ==
    IF e.variant = "DatabaseError"
    THEN HttpResponse(500, Json(e.msg))
    ELSE HttpResponse(404, Json(e.msg))

\* Result<T, ApiError>
Ok(v) == [ok |-> TRUE, val |-> v, err |-> NoError]
Err(e) == [ok |-> FALSE, val |-> "none", err |-> e]

----------------------------------------------------------------------------
(* The store: one statement each, atomic *)

\* What a statement sends back: rows, a count of affected rows, or an error.
SqlOk(rows, n) == [ok |-> TRUE, rows |-> rows, affected |-> n, err |-> "none"]
SqlErr(e) == [ok |-> FALSE, rows |-> {}, affected |-> 0, err |-> e]

Db(t, s) == [table |-> t, seq |-> s]
Ran(db, res) == [db |-> db, res |-> res]

\* The INSERT names no id: the store gives the row the next value of the
\* id column's sequence.
nextval(s) == s + 1

\* cols[i] receives args[i]
Assign(cols, args) ==
    [c \in {cols[i] : i \in 1..Len(cols)} |->
        args[CHOOSE i \in 1..Len(cols) : cols[i] = c]]

\* INSERT INTO blog_posts (title, content, author) VALUES ($1, $2, $3) RETURNING *
Insert(db, args) ==
    LET a == Assign(<<"title", "content", "author">>, args)
        row == [id |-> nextval(db.seq), title |-> a["title"],
                content |-> a["content"], author |-> a["author"]]
    IN  Ran(Db(db.table \cup {row}, nextval(db.seq)), SqlOk({row}, 1))

\* SELECT * FROM blog_posts
SelectAll(db) == Ran(db, SqlOk(db.table, 0))

\* SELECT * FROM blog_posts WHERE id = $1
SelectById(db, args) ==
    Ran(db, SqlOk({r \in db.table : r.id = args[1]}, 0))

\* UPDATE blog_posts SET title=$1, content=$2, author=$3 WHERE id=$4
Update(db, args) ==
    LET hit == {r \in db.table : r.id = args[4]}
        new == {[r EXCEPT !.title = args[1], !.content = args[2],
                          !.author = args[3]] : r \in hit}
    IN  Ran(Db((db.table \ hit) \cup new, db.seq), SqlOk({}, Cardinality(hit)))

\* DELETE FROM blog_posts WHERE id = $1
Delete(db, args) ==
    LET hit == {r \in db.table : r.id = args[1]}
    IN  Ran(Db(db.table \ hit, db.seq), SqlOk({}, Cardinality(hit)))

\* A statement that fails at the store changes nothing.
Failed(db, fault) == Ran(db, SqlErr(fault))

\* .fetch_one: the first row, RowNotFound when there is none
fetch_one(res) ==
    IF ~res.ok THEN [ok |-> FALSE, val |-> "none", err |-> res.err]
    ELSE IF res.rows = {} THEN [ok |-> FALSE, val |-> "none", err |-> "RowNotFound"]
    ELSE [ok |-> TRUE, val |-> FromRow(CHOOSE r \in res.rows : TRUE), err |-> "none"]

\* .fetch_all: every row (a Vec, kept as a set: no ORDER BY)
fetch_all(res) ==
    IF ~res.ok THEN [ok |-> FALSE, val |-> "none", err |-> res.err]
    ELSE [ok |-> TRUE, val |-> {FromRow(r) : r \in res.rows}, err |-> "none"]

\* .execute: the count of affected rows
execute(res) ==
    IF ~res.ok THEN [ok |-> FALSE, val |-> "none", err |-> res.err]
    ELSE [ok |-> TRUE, val |-> res.affected, err |-> "none"]

\* .map_err(ApiError::from)
map_err(r) == IF r.ok THEN Ok(r.val) ELSE Err(From(r.err))

\* What a data-access operation hands back: the store after it, its Result,
\* and the affected-row count the store reported.
Out(ran, result) == [db |-> ran.db, result |-> result, rows |-> ran.res.affected]

----------------------------------------------------------------------------
(* SQLX: the data-access layer.  fault is "none", or the error the pool or *)
(* the store answers the statement with.                                   *)

\* create_post binding author before content.
CreateSwapBinds(db, post, fault) ==
    LET ran == IF fault = "none"
               THEN Insert(db, <<post.title, post.author, post.content>>)
               ELSE Failed(db, fault)
    IN  Out(ran, map_err(fetch_one(ran.res)))

create_post(db, post, fault) ==
    LET ran == IF fault = "none"
               THEN Insert(db, <<post.title, post.content, post.author>>)
               ELSE Failed(db, fault)
    IN  Out(ran, map_err(fetch_one(ran.res)))

\* get_all_posts reading with fetch_optional: the first row only.
GetAllFirst(db, fault) ==
    LET ran == IF fault = "none" THEN SelectAll(db) ELSE Failed(db, fault)
        one == IF ran.res.rows = {} THEN {} ELSE {CHOOSE r \in ran.res.rows : TRUE}
    IN  Out(ran, map_err(fetch_all([ran.res EXCEPT !.rows = one])))

get_all_posts(db, fault) ==
    LET ran == IF fault = "none" THEN SelectAll(db) ELSE Failed(db, fault)
    IN  Out(ran, map_err(fetch_all(ran.res)))

get_post(db, id, fault) ==
    LET ran == IF fault = "none" THEN SelectById(db, <<id>>) ELSE Failed(db, fault)
    IN  Out(ran, map_err(fetch_one(ran.res)))

\* update_post binding author before content.
UpdateSwapBinds(db, id, post, fault) ==
    LET ran == IF fault = "none"
               THEN Update(db, <<post.title, post.author, post.content, id>>)
               ELSE Failed(db, fault)
        r == map_err(execute(ran.res))
    IN  Out(ran, IF r.ok THEN Ok(HttpResponse(200, Json(post))) ELSE r)

\* update_post as an upsert: a row is inserted under id when none matches.
UpdateUpsert(db, id, post, fault) ==
    LET ran == IF fault = "none"
               THEN Update(db, <<post.title, post.content, post.author, id>>)
               ELSE Failed(db, fault)
        row == [id |-> id, title |-> post.title, content |-> post.content,
                author |-> post.author]
        put == IF fault = "none" /\ ran.res.affected = 0
               THEN Ran(Db(ran.db.table \cup {row}, ran.db.seq), SqlOk({}, 1))
               ELSE ran
        r == map_err(execute(put.res))
    IN  Out(put, IF r.ok THEN Ok(HttpResponse(200, Json(post))) ELSE r)

update_post(db, id, post, fault) ==
    LET ran == IF fault = "none"
               THEN Update(db, <<post.title, post.content, post.author, id>>)
               ELSE Failed(db, fault)
        r == map_err(execute(ran.res))
    IN  Out(ran, IF r.ok THEN Ok(HttpResponse(200, Json(post))) ELSE r)

\* delete_post whose statement removes no row (a soft delete).
DeleteKeepsRow(db, id, fault) ==
    LET ran == IF fault = "none"
               THEN Ran(db, Delete(db, <<id>>).res)
               ELSE Failed(db, fault)
        r == map_err(execute(ran.res))
    IN  Out(ran, IF r.ok THEN Ok("()") ELSE r)

\* delete_post reporting RowNotFound when no row was affected.
DeleteChecked(db, id, fault) ==
    LET ran == IF fault = "none" THEN Delete(db, <<id>>) ELSE Failed(db, fault)
        r == map_err(IF ran.res.ok /\ ran.res.affected = 0
                     THEN execute(SqlErr("RowNotFound"))
                     ELSE execute(ran.res))
    IN  Out(ran, IF r.ok THEN Ok("()") ELSE r)

delete_post(db, id, fault) ==
    LET ran == IF fault = "none" THEN Delete(db, <<id>>) ELSE Failed(db, fault)
        r == map_err(execute(ran.res))
    IN  Out(ran, IF r.ok THEN Ok("()") ELSE r)

----------------------------------------------------------------------------
(* Routes: each handler calls its operation; `?` hands an Err to           *)
(* error_response.                                                         *)

Answer(out, resp) ==
    [db |-> out.db, result |-> out.result, rows |-> out.rows, resp |-> resp]

create_blogpost(db, new_post, fault) ==
    LET out == create_post(db, new_post, fault)
    IN  Answer(out, IF out.result.ok
                    THEN HttpResponse(200, Json(out.result.val))
                    ELSE error_response(out.result.err))

get_blogposts(db, fault) ==
    LET out == get_all_posts(db, fault)
    IN  Answer(out, IF out.result.ok
                    THEN HttpResponse(200, Json(out.result.val))
                    ELSE error_response(out.result.err))

get_blogpost(db, path, fault) ==
    LET out == get_post(db, path, fault)
    IN  Answer(out, IF out.result.ok
                    THEN HttpResponse(200, Json(out.result.val))
                    ELSE error_response(out.result.err))

update_blogpost(db, path, updated_post, fault) ==
    LET out == update_post(db, path, updated_post, fault)
    IN  Answer(out, IF out.result.ok
                    THEN HttpResponse(200, Empty)
                    ELSE error_response(out.result.err))

delete_blogpost(db, path, fault) ==
    LET out == delete_post(db, path, fault)
    IN  Answer(out, IF out.result.ok
                    THEN HttpResponse(200, Empty)
                    ELSE error_response(out.result.err))

Req(op, id, post) == [op |-> op, id |-> id, post |-> post]

\* App::new().service(...): the routing table
Route(req, db, fault) ==
    CASE req.op = "create" -> create_blogpost(db, req.post, fault)
      [] req.op = "list"   -> get_blogposts(db, fault)
      [] req.op = "get"    -> get_blogpost(db, req.id, fault)
      [] req.op = "update" -> update_blogpost(db, req.id, req.post, fault)
      [] OTHER             -> delete_blogpost(db, req.id, fault)

----------------------------------------------------------------------------
(* Requests in flight and the pool *)

\* A request in flight: where it is, what it asks, how many times it asked
\* the pool for a connection, and (history) whether a conflicting statement
\* committed on its id's row while it was in flight.
Flight(pc, req, raced, tries) ==
    [pc |-> pc, req |-> req, raced |-> raced, tries |-> tries]

Add(B, x) == B (+) SetToBag({x})
Remove(B, x) == B (-) SetToBag({x})
InFlight == BagToSet(inflight)

\* pool.acquire(): one more connection checked out
Checkout(n) == n + 1

\* Return giving the connection back on the success path only.
ReturnUnlessErr(n, result) == IF result.ok THEN n - 1 ELSE n

\* The connection goes back to the pool when the statement's future ends,
\* whatever its result.
Return(n, result) == n - 1

\* The pool has no free connection to lease.
Exhausted(n) == n >= MaxConnections

\* What acquiring fails with: the wait times out on an exhausted pool,
\* opening a new connection fails otherwise.
AcquireError(n) == IF Exhausted(n) THEN "PoolTimedOut" ELSE "Io"

\* What a statement on a leased connection fails with.
StatementErrors == {"Io", "Database"}

Conflict(a, b) ==
    /\ a.id = b.id
    /\ {a.op, b.op} = {"update", "delete"}

Mark(y, req) == IF Conflict(y.req, req) THEN [y EXCEPT !.raced = TRUE] ELSE y

\* The id a successful write was about.
Target(l) == IF l.req.op = "create" THEN l.resp.body.value.id ELSE l.req.id

\* History: the write (create, update, delete) that the exchange l answered
\* with success on the very id req now asks about, "none" if it was none.
After(l, req) ==
    IF /\ l.fault = "none"
       /\ l.resp.status = 200
       /\ l.req.op \in {"create", "update", "delete"}
       /\ req.op \in {"get", "update", "delete"}
       /\ Target(l) = req.id
    THEN l.req.op
    ELSE "none"

\* An exchange: the request, the fault the store answered with, the
\* operation's Result, the HTTP response, and the request's history.
Exchange(x, fault, ans) ==
    [req |-> x.req, fault |-> fault, rows |-> ans.rows, result |-> ans.result,
     resp |-> ans.resp, raced |-> x.raced, tries |-> x.tries,
     after |-> After(last, x.req)]

NoExchange ==
    [req |-> Req("none", 0, NoPost), fault |-> "none", rows |-> 0,
     result |-> Err(NoError), resp |-> HttpResponse(0, Empty),
     raced |-> FALSE, tries |-> 0, after |-> "none"]

\* History: the posts the answers so far tell a client the store holds.
Told(ps, req, resp) ==
    IF resp.status # 200 THEN ps
    ELSE CASE req.op = "create" ->
                  ps \cup {[id |-> resp.body.value.id, post |-> req.post]}
           [] req.op = "update" ->
                  {IF e.id = req.id THEN [e EXCEPT !.post = req.post] ELSE e : e \in ps}
           [] req.op = "delete" -> {e \in ps : e.id # req.id}
           [] OTHER -> ps

\* History: the ids a successful delete removed a post of.
Gone(ds, ps, req, resp) ==
    IF resp.status # 200 THEN ds
    ELSE CASE req.op = "delete" /\ (\E e \in ps : e.id = req.id) -> ds \cup {req.id}
           [] req.op = "create" -> ds \ {resp.body.value.id}
           [] OTHER -> ds

PendingCreates ==
    LET cs == {x \in InFlight : x.req.op = "create"}
    IN  IF cs = {} THEN 0 ELSE BagCardinality([x \in cs |-> inflight[x]])

----------------------------------------------------------------------------
(* Actions *)

\* establish_connection() succeeded; the table is empty.
Init ==
    /\ table = {}
    /\ seq = 0
    /\ leased = 0
    /\ inflight = EmptyBag
    /\ last = NoExchange
    /\ posts = {}
    /\ deleted = {}

\* The HTTP server hands a request to its handler.  At most cap requests
\* are in flight, and creates stop arriving once maxSeq ids are spoken for.
Receive(cap, maxSeq, req) ==
    /\ BagCardinality(inflight) < cap
    /\ req.op = "create" => seq + PendingCreates < maxSeq
    /\ inflight' = Add(inflight, Flight("acquiring", req, FALSE, 0))
    /\ UNCHANGED <<table, seq, leased, last, posts, deleted>>

\* The operation's executor leases a connection from the pool.
Acquire(x) ==
    /\ x.pc = "acquiring"
    /\ ~Exhausted(leased)
    /\ leased' = Checkout(leased)
    /\ inflight' = Add(Remove(inflight, x),
                       [x EXCEPT !.pc = "leased", !.tries = @ + 1])
    /\ UNCHANGED <<table, seq, last, posts, deleted>>

\* The pool gives no connection: the operation fails without one.
AcquireFail(x) ==
    /\ x.pc = "acquiring"
    /\ LET fault == AcquireError(leased)
           ans == Route(x.req, Db(table, seq), fault)
       IN  /\ last' = Exchange([x EXCEPT !.tries = @ + 1], fault, ans)
           /\ inflight' = Remove(inflight, x)
    /\ UNCHANGED <<table, seq, leased, posts, deleted>>

\* The statement runs at the store with the given fault ("none": it
\* commits), the connection goes back and the handler answers.
Finish(x, fault) ==
    LET ans == Route(x.req, Db(table, seq), fault)
        rest == Remove(inflight, x)
    IN  /\ table' = ans.db.table
        /\ seq' = ans.db.seq
        /\ leased' = Return(leased, ans.result)
        /\ inflight' = IF fault = "none" /\ ans.rows = 1
                       THEN BagOfAll(LAMBDA y : Mark(y, x.req), rest)
                       ELSE rest
        /\ last' = Exchange(x, fault, ans)
        /\ posts' = Told(posts, x.req, ans.resp)
        /\ deleted' = Gone(deleted, posts, x.req, ans.resp)

Execute(x) ==
    /\ x.pc = "leased"
    /\ Finish(x, "none")

ExecuteFail(x, e) ==
    /\ x.pc = "leased"
    /\ Finish(x, e)

PathIds == 1..MaxId

Requests ==
    {Req("create", 0, p) : p \in NewBlogPost}
    \cup {Req("list", 0, NoPost)}
    \cup {Req("get", i, NoPost) : i \in PathIds}
    \cup {Req("update", i, p) : i \in PathIds, p \in NewBlogPost}
    \cup {Req("delete", i, NoPost) : i \in PathIds}

\* One request at a time: a request that has not yet run its statement has
\* touched nothing but the pool.
Next ==
    \/ \E req \in Requests : Receive(1, MaxId, req)
    \/ \E x \in InFlight : Acquire(x)
    \/ \E x \in InFlight : AcquireFail(x)
    \/ \E x \in InFlight : Execute(x)
    \/ \E x \in InFlight, e \in StatementErrors : ExecuteFail(x, e)

Spec == Init /\ [][Next]_vars

\* One more request in flight than the pool has connections.  The update
\* and the delete are on different ids: what requests race on one id is
\* RaceSpec's matter.
PoolRequests ==
    { Req("create", 0, [title |-> "T", author |-> "Al", content |-> "C"]),
      Req("list", 0, NoPost),
      Req("get", 1, NoPost),
      Req("update", 1, [title |-> "U", author |-> "Bo", content |-> "D"]),
      Req("delete", 2, NoPost) }

PoolNext ==
    \/ \E req \in PoolRequests : Receive(MaxConnections + 1, 1, req)
    \/ \E x \in InFlight : Acquire(x)
    \/ \E x \in InFlight : AcquireFail(x)
    \/ \E x \in InFlight : Execute(x)
    \/ \E x \in InFlight, e \in StatementErrors : ExecuteFail(x, e)

PoolSpec == Init /\ [][PoolNext]_vars

\* Writes that interleave on the ids of the table.
RaceIds == 1..MaxRaceId

RaceRequests ==
    {Req("create", 0, [title |-> "T", author |-> "Al", content |-> "C"])}
    \cup {Req("update", i, [title |-> "U", author |-> "Bo", content |-> "D"]) : i \in RaceIds}
    \cup {Req("delete", i, NoPost) : i \in RaceIds}

RaceNext ==
    \/ \E req \in RaceRequests : Receive(MaxRacing, MaxRaceId, req)
    \/ \E x \in InFlight : Acquire(x)
    \/ \E x \in InFlight : AcquireFail(x)
    \/ \E x \in InFlight : Execute(x)
    \/ \E x \in InFlight, e \in StatementErrors : ExecuteFail(x, e)

RaceSpec == Init /\ [][RaceNext]_vars

----------------------------------------------------------------------------
(* Properties *)

HasRow(id) == \E r \in table : r.id = id

\* A request was answered in this step.
Completed == BagCardinality(inflight') < BagCardinality(inflight)

Is200Json(resp, v) ==
    /\ resp.status = 200
    /\ resp.body.type = "json"
    /\ resp.body.value = v

PostOf(id, p) == BlogPost(id, p.title, p.author, p.content)

\* C1: a create the store does not fail answers 200 with a BlogPost whose id
\* is above 0 and whose title, author and content are the input's; a
\* getById on that id answered next (nothing answered in between, the store
\* not failing) answers 200 with that same BlogPost.
CreateThenGet ==
    [][ Completed =>
          /\ (last'.req.op = "create" /\ last'.fault = "none") =>
                /\ last'.result.ok
                /\ Is200Json(last'.resp, last'.result.val)
                /\ last'.result.val.id > 0
                /\ last'.result.val = PostOf(last'.result.val.id, last'.req.post)
          /\ (/\ last.req.op = "create"
              /\ last.resp.status = 200
              /\ last'.req = Req("get", last.resp.body.value.id, NoPost)
              /\ last'.fault = "none") =>
                /\ last'.result.ok
                /\ last'.result.val = last.resp.body.value
                /\ Is200Json(last'.resp, last.resp.body.value)
      ]_vars

\* A get answered 200 right after the create that was assigned its id.
CreateThenGetWitness ==
    /\ last.req.op = "get"
    /\ last.after = "create"
    /\ last.resp.status = 200
    /\ last.resp.body.value.id = last.req.id

\* C2: a getById on an id with no row never answers 200; the store not
\* failing otherwise, it fails with NotFound and the answer is 404 (500 only
\* when the store failed).
MissingIsNotFound ==
    (last.req.op = "get" /\ ~HasRow(last.req.id)) =>
        /\ last.resp.status # 200
        /\ ~last.result.ok
        /\ last.fault = "none" =>
              /\ last.result.err = NotFound("Record not found")
              /\ last.resp.status = 404
              /\ last.resp.body = Json("Record not found")
        /\ last.resp.status = 500 => last.fault # "none"

\* A get on an id that was never assigned, answered 404.
MissingIsNotFoundWitness ==
    /\ last.req.op = "get"
    /\ last.req.id > seq
    /\ last.fault = "none"
    /\ last.resp.status = 404

\* C3: an update of an existing id the store does not fail overwrites the
\* row's title, author and content with the post's and leaves the ids of the
\* table and every other row as they were; a getById on that id answered
\* next answers 200 with the post's fields under the same id.
UpdateThenGet ==
    [][ Completed =>
          /\ (/\ last'.req.op = "update"
              /\ last'.fault = "none"
              /\ HasRow(last'.req.id)) =>
                /\ last'.resp.status = 200
                /\ {r.id : r \in table'} = {r.id : r \in table}
                /\ \A r \in table' :
                      IF r.id = last'.req.id
                      THEN FromRow(r) = PostOf(r.id, last'.req.post)
                      ELSE r \in table
          /\ (/\ last.req.op = "update"
              /\ last.resp.status = 200
              /\ HasRow(last.req.id)
              /\ last'.req = Req("get", last.req.id, NoPost)
              /\ last'.fault = "none") =>
                Is200Json(last'.resp, PostOf(last.req.id, last.req.post))
      ]_vars

\* A get answered 200 right after an update of its id.
UpdateThenGetWitness ==
    /\ last.req.op = "get"
    /\ last.after = "update"
    /\ last.resp.status = 200
    /\ last.resp.body.value.title = "U"

\* C4: a PUT answered 200 carries the submitted post as its body.
PutEchoesBody ==
    (last.req.op = "update" /\ last.resp.status = 200) =>
        last.resp.body = Json(last.req.post)

\* C5: an id whose row a delete removed has no row from then on: a getById
\* on it never answers 200 and, the store not failing, answers 404 with
\* NotFound, and no list holds a post of that id (ids are not assigned
\* twice, so no create brings one back).
DeleteIsPermanent ==
    /\ \A id \in deleted : ~HasRow(id)
    /\ (last.req.op = "get" /\ last.req.id \in deleted) =>
          /\ last.resp.status # 200
          /\ last.fault = "none" =>
                /\ last.resp.status = 404
                /\ last.result.err.variant = "NotFound"
    /\ (last.req.op = "list" /\ last.resp.status = 200) =>
          \A b \in last.resp.body.value : b.id \notin deleted

\* A get answered 404 right after the delete that removed its id's row.
DeleteIsPermanentWitness ==
    /\ last.req.op = "get"
    /\ last.after = "delete"
    /\ last.req.id \in deleted
    /\ last.resp.status = 404

\* C6: an update or a delete of an id with no row, the store not failing,
\* answers 200 without NotFound, reports no affected row, creates no row and
\* leaves the table as it was; a delete answered right after a successful
\* delete of the same id succeeds too.
AbsentIdIsSilent ==
    [][ Completed =>
          /\ (/\ last'.req.op \in {"update", "delete"}
              /\ last'.fault = "none"
              /\ ~HasRow(last'.req.id)) =>
                /\ last'.result.ok
                /\ last'.resp.status = 200
                /\ last'.rows = 0
                /\ table' = table
                /\ seq' = seq
          /\ (/\ last.req.op = "delete"
              /\ last.resp.status = 200
              /\ last'.req = last.req
              /\ last'.fault = "none") =>
                /\ last'.result.ok
                /\ last'.resp.status = 200
      ]_vars

\* A delete answered 200 right after a delete that removed its id's row.
AbsentIdIsSilentWitness ==
    /\ last.req.op = "delete"
    /\ last.after = "delete"
    /\ last.req.id \in deleted
    /\ last.rows = 0
    /\ last.resp.status = 200

\* C7: the table holds exactly the posts created and not deleted, each with
\* the fields of its creation or latest update, one row per id; a list the
\* store does not fail answers 200 with exactly those posts.
ListIsTheStore ==
    LET expect == {PostOf(e.id, e.post) : e \in posts}
    IN  /\ {FromRow(r) : r \in table} = expect
        /\ \A r1, r2 \in table : r1.id = r2.id => r1 = r2
        /\ \A e1, e2 \in posts : e1.id = e2.id => e1 = e2
        /\ (last.req.op = "list" /\ last.fault = "none") =>
              Is200Json(last.resp, expect)

\* A list of the three posts created in the empty table.
ListIsTheStoreWitness ==
    /\ last.req.op = "list"
    /\ last.resp.status = 200
    /\ seq = 3
    /\ Cardinality(last.resp.body.value) = 3

\* C8: RowNotFound becomes NotFound and 404, every other store error becomes
\* DatabaseError and 500 with the error's text as the body; an answer is
\* 200, 404 or 500; no failed operation is answered 200; a failure not due
\* to a fault of the store is the missing row of a getById; and the answer
\* comes from the request's one and only attempt.
ErrorsTranslate ==
    /\ \A e \in SqlxErrors :
          LET code == IF e = "RowNotFound" THEN 404 ELSE 500
          IN  /\ status_code(From(e)) = code
              /\ error_response(From(e)).status = code
    /\ last.req.op # "none" =>
          /\ last.resp.status \in {200, 404, 500}
          /\ last.tries = 1
          /\ last.result.ok <=> last.resp.status = 200
          /\ ~last.result.ok => last.resp.status = status_code(last.result.err)
          /\ last.fault # "none" =>
                /\ ~last.result.ok
                /\ last.result.err = DatabaseError(to_string(last.fault))
                /\ last.resp.status = 500
                /\ last.resp.body = Json(to_string(last.fault))
          /\ (last.fault = "none" /\ ~last.result.ok) =>
                /\ last.req.op = "get"
                /\ last.result.err.variant = "NotFound"
                /\ last.resp.status = 404

\* A create the store failed, answered 500.
ErrorsTranslateWitness ==
    /\ last.req.op = "create"
    /\ last.fault = "Database"
    /\ last.resp.status = 500

Holding ==
    LET hs == {x \in InFlight : x.pc = "leased"}
    IN  IF hs = {} THEN 0 ELSE BagCardinality([x \in hs |-> inflight[x]])

\* C9: the connections checked out are exactly one per request that is
\* running its statement, never more than the pool's maximum, and none once
\* no request is in flight, whatever the requests ended with.
ConnectionsAreScoped ==
    /\ leased >= 0
    /\ leased <= MaxConnections
    /\ leased = Holding
    /\ InFlight = {} => leased = 0
    /\ \A x \in InFlight : x.tries = IF x.pc = "leased" THEN 1 ELSE 0

\* The pool is exhausted, a further request waits, and the exchange answered
\* last had failed.
ConnectionsAreScopedWitness ==
    /\ leased = MaxConnections
    /\ \E x \in InFlight : x.pc = "acquiring"
    /\ last.fault # "none"

\* C10: an update and a delete the store does not fail are each answered
\* 200 and each applied, when it commits, to the table as it then is; once
\* both of an update and a delete of one existing id that were in flight
\* together have committed, in either order, the id has no row (the update
\* that commits last does not bring the deleted row back).
UpdateDeleteRace ==
    [][ (/\ Completed
         /\ last'.fault = "none"
         /\ last'.req.op \in {"update", "delete"}) =>
          /\ last'.resp.status = 200
          /\ last'.req.op = "delete" =>
                table' = {r \in table : r.id # last'.req.id}
          /\ last'.req.op = "update" =>
                /\ {r.id : r \in table'} = {r.id : r \in table}
                /\ \A r \in table' :
                      IF r.id = last'.req.id
                      THEN FromRow(r) = PostOf(r.id, last'.req.post)
                      ELSE r \in table
          /\ (last'.raced /\ last'.req.id \in deleted') =>
                \A r \in table' : r.id # last'.req.id
      ]_vars

\* An update answered 200 that committed after a delete, in flight with it,
\* had removed its id's row.
UpdateDeleteRaceWitness ==
    /\ last.req.op = "update"
    /\ last.raced
    /\ last.fault = "none"
    /\ last.req.id \in deleted
    /\ last.rows = 0
    /\ last.resp.status = 200

====
